---------------------------- MODULE Spec2Model ----------------------------
(***************************************************************************)
(* A model of the Orion chat front-end: the response extractor             *)
(* (findResponseText), the remote send operation (sendMessageToOrion) and  *)
(* the session store kept by the App component.                            *)
(*                                                                         *)
(* Strings are sequences of one-character strings, so that trimming,       *)
(* searching for braces and JSON parsing are computed and not assumed.     *)
(* JavaScript values are tagged records:                                   *)
(*   [t |-> "null"], [t |-> "undefined"], [t |-> "bool", b |-> ...],       *)
(*   [t |-> "num", zero |-> ...], [t |-> "str", s |-> <<chars>>],          *)
(*   [t |-> "arr", a |-> <<values>>],                                      *)
(*   [t |-> "obj", o |-> <<[k |-> <<chars>>, v |-> value], ...>>]          *)
(* An object keeps its properties in enumeration order.                    *)
(***************************************************************************)
EXTENDS Integers, Sequences, FiniteSets, TLC

VARIABLES
    exData,     \* the argument handed to findResponseText
    exPc,       \* "off" | "ready" | "done"
    exResult,   \* what findResponseText returned
    exDepth,    \* how many times the argument has been wrapped
    exParts,    \* for an argument made by embedding JSON text in a string:
                \* the value embedded and the text before and after it
    sdText,     \* sendMessageToOrion's argument text
    sdHistory,  \* sendMessageToOrion's argument history
    sdPc,       \* "off" | "called" | "fetch1" | "fetch2" | "body" | "settled"
    sdTimer,    \* the 90 s timer: "unset" | "armed" | "cleared" | "fired"
    sdRequests, \* the network calls issued so far, in order
    sdFirstErr, \* the error the first network call failed with
    sdThrown,   \* the error that reached the catch block of the call
    sdStatus,   \* the status of the response received, 0 before
    sdBody,     \* the body text read from the response
    sdOutcome,  \* how the returned promise settled
    sessions,          \* App state: the session collection
    currentSessionId,  \* App state: the selected id, NoId for null
    isInitialized,     \* App state
    language,          \* App state: "zh" | "en"
    isLoading,         \* state of the mounted ChatInterface
    pending,           \* the sends awaiting their reply, oldest first
    storage,           \* localStorage: the entries orion_sessions and
                       \* orion_current_session_id
    quotaFull,         \* localStorage has no room left
    now,               \* what Date.now() returns
    stPhase,           \* "off" | "unmounted" | "running" | "crashed"
    stEvents,          \* how many events have taken place
    stLastOp,          \* the last event: its name, its argument and how many
                       \* sessions there were before it
    stSetItem,         \* the values the last step handed to
                       \* localStorage.setItem('orion_sessions', ...)
    stUnsaved          \* the last setItem('orion_sessions', ...) failed

exVars == <<exData, exPc, exResult, exDepth, exParts>>

sdVars == <<sdText, sdHistory, sdPc, sdTimer, sdRequests, sdFirstErr, sdThrown,
            sdStatus, sdBody, sdOutcome>>

stVars == <<sessions, currentSessionId, isInitialized, language, isLoading,
            pending, storage, quotaFull, now, stPhase, stEvents, stLastOp,
          stSetItem, stUnsaved>>

vars == <<exData, exPc, exResult, exDepth, exParts,
          sdText, sdHistory, sdPc, sdTimer, sdRequests, sdFirstErr, sdThrown,
          sdStatus, sdBody, sdOutcome,
          sessions, currentSessionId, isInitialized, language, isLoading,
          pending, storage, quotaFull, now, stPhase, stEvents, stLastOp,
          stSetItem, stUnsaved>>

---------------------------------------------------------------------------
(* JavaScript values *)

NullV == [t |-> "null"]
Undefined == [t |-> "undefined"]
StrV(s) == [t |-> "str", s |-> s]
NumV(isZero) == [t |-> "num", zero |-> isZero]
BoolV(b) == [t |-> "bool", b |-> b]
ArrV(a) == [t |-> "arr", a |-> a]
ObjV(o) == [t |-> "obj", o |-> o]

\* ToBoolean: null, undefined, false, 0 and "" are falsy
Truthy(v) ==
    CASE v.t = "null" -> FALSE
      [] v.t = "undefined" -> FALSE
      [] v.t = "bool" -> v.b
      [] v.t = "num" -> ~v.zero
      [] v.t = "str" -> Len(v.s) > 0
      [] OTHER -> TRUE

\* typeof v === 'string'
IsString(v) == v.t = "str"

\* data[key] on a plain object: the property's value, or undefined
GetField(obj, key) ==
    IF \E n \in 1..Len(obj.o) : obj.o[n].k = key
    THEN obj.o[CHOOSE n \in 1..Len(obj.o) : obj.o[n].k = key].v
    ELSE Undefined

---------------------------------------------------------------------------
(* String primitives (positions are 1-based; 0 stands for JavaScript's -1) *)

\* String.prototype.includes with a one-character argument
IncludesChar(s, c) == \E n \in 1..Len(s) : s[n] = c

\* String.prototype.indexOf with a one-character argument
IndexOfChar(s, c) ==
    IF IncludesChar(s, c)
    THEN CHOOSE n \in 1..Len(s) : s[n] = c /\ \A m \in 1..(n - 1) : s[m] # c
    ELSE 0

\* String.prototype.lastIndexOf with a one-character argument
LastIndexOfChar(s, c) ==
    IF IncludesChar(s, c)
    THEN CHOOSE n \in 1..Len(s) : s[n] = c /\ \A m \in (n + 1)..Len(s) : s[m] # c
    ELSE 0

\* the white space String.prototype.trim strips
IsTrimSpace(c) == c \in {" ", "\t", "\n", "\r", "\f"}

\* String.prototype.trim
Trim(s) ==
    IF \A n \in 1..Len(s) : IsTrimSpace(s[n])
    THEN <<>>
    ELSE LET first == CHOOSE n \in 1..Len(s) :
                         ~IsTrimSpace(s[n]) /\ \A m \in 1..(n - 1) : IsTrimSpace(s[m])
             last == CHOOSE n \in 1..Len(s) :
                         ~IsTrimSpace(s[n]) /\ \A m \in (n + 1)..Len(s) : IsTrimSpace(s[m])
         IN  SubSeq(s, first, last)

\* String.prototype.includes with a string argument
Includes(s, sub) ==
    \E n \in 1..(Len(s) - Len(sub) + 1) : SubSeq(s, n, n + Len(sub) - 1) = sub

---------------------------------------------------------------------------
(* JSON.parse, by recursive descent over the characters.                   *)
(* Bind(x, F) is F(x) with x computed once, so that a parse result is not  *)
(* recomputed at each of its uses.                                         *)

Bind(x, F(_)) == CHOOSE y \in {F(v) : v \in {x}} : TRUE

\* a sequence given as a function, as an explicit tuple
AsTuple(f) == <<>> \o f

Digits == {"0", "1", "2", "3", "4", "5", "6", "7", "8", "9"}
HexDigits == Digits \cup {"a", "b", "c", "d", "e", "f", "A", "B", "C", "D", "E", "F"}

\* the white space the JSON grammar allows between tokens
IsJsonSpace(c) == c \in {" ", "\t", "\n", "\r"}

\* characters that may not appear unescaped inside a JSON string literal
IsControlChar(c) == c \in {"\t", "\n", "\r", "\f"}

ParseFail == [ok |-> FALSE, v |-> NullV, i |-> 0]
ParseOk(v, i) == [ok |-> TRUE, v |-> v, i |-> i]

\* the first position at or after i that holds no JSON white space
SkipWs(s, i) ==
    IF \E n \in i..Len(s) : ~IsJsonSpace(s[n])
    THEN CHOOSE n \in i..Len(s) :
             ~IsJsonSpace(s[n]) /\ \A m \in i..(n - 1) : IsJsonSpace(s[m])
    ELSE Len(s) + 1

\* the first position at or after i that holds no digit
DigitsEnd(s, i) ==
    IF \E n \in i..Len(s) : s[n] \notin Digits
    THEN CHOOSE n \in i..Len(s) :
             s[n] \notin Digits /\ \A m \in i..(n - 1) : s[m] \in Digits
    ELSE Len(s) + 1

\* the character a \uXXXX escape denotes (code points outside the table are
\* one opaque character)
UnicodeChar(hex) ==
    CASE hex \in {<<"0","0","7","b">>, <<"0","0","7","B">>} -> "{"
      [] hex \in {<<"0","0","7","d">>, <<"0","0","7","D">>} -> "}"
      [] hex = <<"0","0","2","2">> -> "\""
      [] hex = <<"0","0","2","0">> -> " "
      [] OTHER -> "\\u"

\* the character a two-character escape denotes, or "" when it is no escape
EscapeChar(e) ==
    CASE e = "\"" -> "\""
      [] e = "\\" -> "\\"
      [] e = "/" -> "/"
      [] e = "n" -> "\n"
      [] e = "t" -> "\t"
      [] e = "r" -> "\r"
      [] e = "f" -> "\f"
      [] e = "b" -> "\\b"
      [] OTHER -> ""

\* the number of backslashes that immediately precede position j, counted
\* back no further than position a
BackslashRun(s, a, j) ==
    LET stop == CHOOSE p \in (a - 1)..(j - 1) :
                    /\ (p = a - 1 \/ s[p] # "\\")
                    /\ \A q \in (p + 1)..(j - 1) : s[q] = "\\"
    IN  j - 1 - stop

\* position p starts an escape sequence of the literal that opens before a
IsEscapeStart(s, a, p) == s[p] = "\\" /\ BackslashRun(s, a, p) % 2 = 0

\* position p belongs to an escape sequence that starts before it
IsEscaped(s, a, p) ==
    \E e \in (IF p - 5 > a THEN p - 5 ELSE a)..(p - 1) :
        /\ s[e] = "\\"
        /\ IsEscapeStart(s, a, e)
        /\ (e = p - 1 \/ (e + 1 <= Len(s) /\ s[e + 1] = "u"))

\* the characters of a string literal whose text lies in a..(end - 1), given
\* the positions that belong to an escape sequence started before them
LiteralChars(s, a, end, escaped) ==
    LET UnitChar(p) ==
            IF s[p] # "\\" THEN s[p]
            ELSE IF s[p + 1] = "u" THEN UnicodeChar(SubSeq(s, p + 2, p + 5))
            ELSE EscapeChar(s[p + 1])
        \* the position of the n-th character that belongs to no earlier escape
        Nth(n) ==
            IF escaped = {} THEN a + n - 1
            ELSE CHOOSE p \in (a + n - 1)..(end - 1) :
                     /\ p \notin escaped
                     /\ p - a + 1 - Cardinality({q \in escaped : q < p}) = n
    IN  AsTuple([n \in 1..(end - a - Cardinality(escaped)) |-> UnitChar(Nth(n))])

\* whether the literal's text in a..(end - 1) is well formed
LiteralOk(s, a, end, escaped) ==
    \A p \in (a..(end - 1)) \ escaped :
        IF s[p] # "\\" THEN ~IsControlChar(s[p])
        ELSE IF s[p + 1] = "u"
            THEN p + 5 < end /\ \A n \in (p + 2)..(p + 5) : s[n] \in HexDigits
        ELSE EscapeChar(s[p + 1]) # ""

\* position j holds the quote that closes the literal opened before a
ClosesLiteral(s, a, j) ==
    s[j] = "\"" /\ (j = a \/ s[j - 1] # "\\" \/ ~IsEscaped(s, a, j))

\* a string literal's remainder: a is the position after the opening quote
ScanString(s, a) ==
    IF \E j \in a..Len(s) : ClosesLiteral(s, a, j)
    THEN Bind(CHOOSE j \in a..Len(s) :
                  ClosesLiteral(s, a, j) /\ \A m \in a..(j - 1) : ~ClosesLiteral(s, a, m),
              LAMBDA end :
                  Bind({p \in a..(end - 1) : IsEscaped(s, a, p)},
                       LAMBDA escaped :
                           IF LiteralOk(s, a, end, escaped)
                           THEN ParseOk(StrV(LiteralChars(s, a, end, escaped)), end + 1)
                           ELSE ParseFail))
    ELSE ParseFail

\* number = [-] int [frac] [exp]; only whether the number is zero is kept
ParseNumber(s, i) ==
    LET d == IF s[i] = "-" THEN i + 1 ELSE i
        intEnd == DigitsEnd(s, d)
        hasFrac == intEnd <= Len(s) /\ s[intEnd] = "."
        fracEnd == IF hasFrac THEN DigitsEnd(s, intEnd + 1) ELSE intEnd
        hasExp == fracEnd <= Len(s) /\ s[fracEnd] \in {"e", "E"}
        expDigits == IF hasExp /\ fracEnd + 1 <= Len(s) /\ s[fracEnd + 1] \in {"+", "-"}
                     THEN fracEnd + 2 ELSE fracEnd + 1
        expEnd == IF hasExp THEN DigitsEnd(s, expDigits) ELSE fracEnd
        isZero == \A n \in d..(fracEnd - 1) : s[n] \in {"0", "."}
    IN  IF intEnd = d THEN ParseFail                              \* no digit
        ELSE IF s[d] = "0" /\ intEnd > d + 1 THEN ParseFail       \* leading zero
        ELSE IF hasFrac /\ fracEnd = intEnd + 1 THEN ParseFail    \* "1."
        ELSE IF hasExp /\ expEnd = expDigits THEN ParseFail       \* "1e"
        ELSE ParseOk(NumV(isZero), expEnd)

\* the literals true, false and null
ParseLiteral(s, i) ==
    LET Is(word) == i + Len(word) - 1 <= Len(s) /\ SubSeq(s, i, i + Len(word) - 1) = word
    IN  IF Is(<<"t","r","u","e">>) THEN ParseOk(BoolV(TRUE), i + 4)
        ELSE IF Is(<<"f","a","l","s","e">>) THEN ParseOk(BoolV(FALSE), i + 5)
        ELSE IF Is(<<"n","u","l","l">>) THEN ParseOk(NullV, i + 4)
        ELSE ParseFail

\* a property key that is a canonical array index ("0", "7", "12")
IsIndexKey(k) ==
    /\ Len(k) > 0
    /\ \A n \in 1..Len(k) : k[n] \in Digits
    /\ (Len(k) > 1 => k[1] # "0")

DigitValue(c) ==
    CASE c = "0" -> 0 [] c = "1" -> 1 [] c = "2" -> 2 [] c = "3" -> 3 [] c = "4" -> 4
      [] c = "5" -> 5 [] c = "6" -> 6 [] c = "7" -> 7 [] c = "8" -> 8 [] OTHER -> 9

RECURSIVE IndexValue(_)
IndexValue(k) ==
    IF k = <<>> THEN 0
    ELSE 10 * IndexValue(SubSeq(k, 1, Len(k) - 1)) + DigitValue(k[Len(k)])

\* defining property key := v on an object being built: a key already present
\* keeps its place; index keys enumerate first, in ascending order; the other
\* keys enumerate in insertion order
ObjPut(o, key, v) ==
    IF \E n \in 1..Len(o) : o[n].k = key
    THEN AsTuple([n \in 1..Len(o) |-> IF o[n].k = key THEN [k |-> key, v |-> v] ELSE o[n]])
    ELSE IF IsIndexKey(key)
    THEN LET before == {n \in 1..Len(o) :
                           IsIndexKey(o[n].k) /\ IndexValue(o[n].k) < IndexValue(key)}
             at == Cardinality(before)
         IN  SubSeq(o, 1, at) \o <<[k |-> key, v |-> v]>> \o SubSeq(o, at + 1, Len(o))
    ELSE Append(o, [k |-> key, v |-> v])

RECURSIVE ParseValue(_, _)
RECURSIVE ParseElements(_, _, _)
RECURSIVE ParseMembers(_, _, _)

\* the elements of an array after "[": i is at the next element
ParseElements(s, i, acc) ==
    Bind(ParseValue(s, i), LAMBDA r :
        IF ~r.ok THEN ParseFail
        ELSE Bind(<<SkipWs(s, r.i), Append(acc, r.v)>>, LAMBDA ka :
            IF ka[1] > Len(s) THEN ParseFail
            ELSE IF s[ka[1]] = "," THEN ParseElements(s, SkipWs(s, ka[1] + 1), ka[2])
            ELSE IF s[ka[1]] = "]" THEN ParseOk(ArrV(ka[2]), ka[1] + 1)
            ELSE ParseFail))

\* the members of an object after "{": i is at the next member's key
ParseMembers(s, i, acc) ==
    IF i > Len(s) \/ s[i] # "\"" THEN ParseFail
    ELSE Bind(ScanString(s, i + 1), LAMBDA key :
        IF ~key.ok THEN ParseFail
        ELSE Bind(SkipWs(s, key.i), LAMBDA colon :
            IF colon > Len(s) \/ s[colon] # ":" THEN ParseFail
            ELSE Bind(ParseValue(s, SkipWs(s, colon + 1)), LAMBDA r :
                IF ~r.ok THEN ParseFail
                ELSE Bind(<<SkipWs(s, r.i), ObjPut(acc, key.v.s, r.v)>>, LAMBDA ka :
                    IF ka[1] > Len(s) THEN ParseFail
                    ELSE IF s[ka[1]] = ","
                        THEN ParseMembers(s, SkipWs(s, ka[1] + 1), ka[2])
                    ELSE IF s[ka[1]] = "}" THEN ParseOk(ObjV(ka[2]), ka[1] + 1)
                    ELSE ParseFail))))

\* one JSON value starting at position i (white space already skipped)
ParseValue(s, i) ==
    IF i > Len(s) THEN ParseFail
    ELSE IF s[i] = "{" THEN
        Bind(SkipWs(s, i + 1), LAMBDA j :
            IF j <= Len(s) /\ s[j] = "}" THEN ParseOk(ObjV(<<>>), j + 1)
            ELSE ParseMembers(s, j, <<>>))
    ELSE IF s[i] = "[" THEN
        Bind(SkipWs(s, i + 1), LAMBDA j :
            IF j <= Len(s) /\ s[j] = "]" THEN ParseOk(ArrV(<<>>), j + 1)
            ELSE ParseElements(s, j, <<>>))
    ELSE IF s[i] = "\"" THEN ScanString(s, i + 1)
    ELSE IF s[i] = "-" \/ s[i] \in Digits THEN ParseNumber(s, i)
    ELSE ParseLiteral(s, i)

\* JSON.parse(s): ok is FALSE where JSON.parse throws a SyntaxError
JsonParse(s) ==
    Bind(s, LAMBDA text :
        Bind(ParseValue(text, SkipWs(text, 1)), LAMBDA r :
            IF r.ok /\ SkipWs(text, r.i) = Len(text) + 1
            THEN [ok |-> TRUE, v |-> r.v]
            ELSE [ok |-> FALSE, v |-> NullV]))

\* JSON.stringify: the text of a value (a number is kept only as zero or
\* non-zero, so it is written 0 or 1; undefined array elements become null and
\* undefined properties are left out)
RECURSIVE JsonStringify(_)
RECURSIVE StringifyElements(_, _)
RECURSIVE StringifyMembers(_, _, _)

\* the characters of a string between the quotes of its literal
QuoteChars(s) ==
    Bind({m \in 1..Len(s) : s[m] \in {"\"", "\\", "\n", "\t", "\r", "\f"}}, LAMBDA need :
        LET Letter(c) ==
                CASE c = "\n" -> "n" [] c = "\t" -> "t" [] c = "\r" -> "r"
                  [] c = "\f" -> "f" [] OTHER -> c
            \* where the n-th character's text starts in the result
            Start(n) == n + Cardinality({m \in need : m < n})
            Source(i) ==
                IF need = {} THEN i
                ELSE CHOOSE n \in (IF i > Cardinality(need)
                                   THEN i - Cardinality(need) ELSE 1)..i :
                         Start(n) <= i /\ i <= Start(n) + (IF n \in need THEN 1 ELSE 0)
        IN  AsTuple([i \in 1..(Len(s) + Cardinality(need)) |->
                Bind(Source(i), LAMBDA n :
                    IF n \notin need THEN s[n]
                    ELSE IF i = Start(n) THEN "\\" ELSE Letter(s[n]))]))

StringifyElements(a, n) ==
    IF n > Len(a) THEN <<>>
    ELSE (IF n > 1 THEN <<",">> ELSE <<>>)
         \o (IF a[n].t = "undefined" THEN <<"n","u","l","l">> ELSE JsonStringify(a[n]))
         \o StringifyElements(a, n + 1)

StringifyMembers(o, n, first) ==
    IF n > Len(o) THEN <<>>
    ELSE IF o[n].v.t = "undefined" THEN StringifyMembers(o, n + 1, first)
    ELSE (IF first THEN <<>> ELSE <<",">>)
         \o <<"\"">> \o QuoteChars(o[n].k) \o <<"\"", ":">> \o JsonStringify(o[n].v)
         \o StringifyMembers(o, n + 1, FALSE)

JsonStringify(v) ==
    Bind(v, LAMBDA val :
        CASE val.t = "str" -> <<"\"">> \o QuoteChars(val.s) \o <<"\"">>
          [] val.t = "num" -> IF val.zero THEN <<"0">> ELSE <<"1">>
          [] val.t = "bool" -> IF val.b THEN <<"t","r","u","e">> ELSE <<"f","a","l","s","e">>
          [] val.t = "arr" -> <<"[">> \o StringifyElements(val.a, 1) \o <<"]">>
          [] val.t = "obj" -> <<"{">> \o StringifyMembers(val.o, 1, TRUE) \o <<"}">>
          [] OTHER -> <<"n","u","l","l">>)

---------------------------------------------------------------------------
(* The response extractor, services/orionService.ts findResponseText *)

K_text_response == <<"t","e","x","t","_","r","e","s","p","o","n","s","e">>
K_output == <<"o","u","t","p","u","t">>
K_response == <<"r","e","s","p","o","n","s","e">>
K_message == <<"m","e","s","s","a","g","e">>
K_content == <<"c","o","n","t","e","n","t">>

\* the recognized reply fields, in the order the extractor tests them
KnownFields == <<K_text_response, K_output, K_response, K_message, K_content>>

\* data.f && typeof data.f === 'string'
HoldsText(data, f) == Bind(GetField(data, f), LAMBDA v : Truthy(v) /\ IsString(v))

\* step 1 with the fields tested in the reverse order
DirectFieldLastWins(data) ==
    IF \E n \in 1..Len(KnownFields) : HoldsText(data, KnownFields[n])
    THEN GetField(data, KnownFields[CHOOSE n \in 1..Len(KnownFields) :
             /\ HoldsText(data, KnownFields[n])
             /\ \A m \in (n + 1)..Len(KnownFields) : ~HoldsText(data, KnownFields[m])])
    ELSE NullV

\* step 1 without the test that the field's value is truthy
DirectFieldAnyString(data) ==
    IF \E n \in 1..Len(KnownFields) : IsString(GetField(data, KnownFields[n]))
    THEN GetField(data, KnownFields[CHOOSE n \in 1..Len(KnownFields) :
             /\ IsString(GetField(data, KnownFields[n]))
             /\ \A m \in 1..(n - 1) : ~IsString(GetField(data, KnownFields[m]))])
    ELSE NullV

\* step 1: the first recognized field of the object itself that holds a
\* non-empty string, or null
DirectField(data) ==
    IF \E n \in 1..Len(KnownFields) : HoldsText(data, KnownFields[n])
    THEN GetField(data, KnownFields[CHOOSE n \in 1..Len(KnownFields) :
             /\ HoldsText(data, KnownFields[n])
             /\ \A m \in 1..(n - 1) : ~HoldsText(data, KnownFields[m])])
    ELSE NullV

\* attempt B taking the text from the last "{" instead of the first
PotentialJsonLastOpen(trimmed) ==
    Bind(<<LastIndexOfChar(trimmed, "{"), LastIndexOfChar(trimmed, "}")>>, LAMBDA brace :
        IF brace[1] # 0 /\ brace[2] > brace[1]
           /\ SubSeq(trimmed, brace[1], brace[2]) # trimmed
        THEN SubSeq(trimmed, brace[1], brace[2])
        ELSE <<>>)

\* attempt B's candidate: the text from the first "{" to the last "}" when
\* there is one and it differs from the whole trimmed text; <<>> otherwise
PotentialJson(trimmed) ==
    Bind(<<IndexOfChar(trimmed, "{"), LastIndexOfChar(trimmed, "}")>>, LAMBDA brace :
        IF brace[1] # 0 /\ brace[2] > brace[1]
           /\ SubSeq(trimmed, brace[1], brace[2]) # trimmed
        THEN SubSeq(trimmed, brace[1], brace[2])
        ELSE <<>>)

\* the values of attempt A and attempt B, in that order, for those that parse
ParsedTexts(trimmed) ==
    Bind(PotentialJson(trimmed), LAMBDA potentialJson :
        Bind({<<n, JsonParse(IF n = 1 THEN trimmed ELSE potentialJson)>> :
                 n \in (IF potentialJson # <<>> THEN {1, 2} ELSE {1})},
             LAMBDA parsed :
                 (IF \E p \in parsed : p[1] = 1 /\ p[2].ok
                  THEN <<(CHOOSE p \in parsed : p[1] = 1)[2].v>> ELSE <<>>)
                 \o (IF \E p \in parsed : p[1] = 2 /\ p[2].ok
                     THEN <<(CHOOSE p \in parsed : p[1] = 2)[2].v>> ELSE <<>>)))

\* step 2 without the test that the trimmed text holds both braces
StringCandidatesNoBraceTest(s) == ParsedTexts(Trim(s))

\* step 2: what a string offers to the search, in the order it is tried: the
\* value of the whole trimmed text when that parses (attempt A), then the value
\* of the text from the first "{" to the last "}" when that parses (attempt
\* B). A string without both braces offers nothing; the string itself is never
\* the answer
StringCandidates(s) ==
    Bind(Trim(s), LAMBDA trimmed :
        IF IncludesChar(trimmed, "{") /\ IncludesChar(trimmed, "}")
        THEN ParsedTexts(trimmed)
        ELSE <<>>)

\* the values the search descends into, in order: a string's parsed texts
\* (step 2), an array's elements (step 3), an object's property values (step 4)
SearchChildren(data) ==
    CASE data.t = "str" -> StringCandidates(data.s)
      [] data.t = "arr" -> data.a
      [] data.t = "obj" -> AsTuple([n \in 1..Len(data.o) |-> data.o[n].v])
      [] OTHER -> <<>>

RECURSIVE findResponseText(_)
RECURSIVE findFirst(_, _)

\* the first of the values, from the n-th on, in which text is found
findFirst(items, n) ==
    IF n > Len(items) THEN NullV
    ELSE Bind(findResponseText(items[n]), LAMBDA found :
             IF found # NullV THEN found ELSE findFirst(items, n + 1))

findResponseText(data) ==
    Bind(data, LAMBDA d :
        IF ~Truthy(d) THEN NullV
        ELSE Bind(IF d.t = "obj" THEN DirectField(d) ELSE NullV, LAMBDA direct :
            IF direct # NullV THEN direct
            ELSE Bind(SearchChildren(d), LAMBDA items : findFirst(items, 1))))

---------------------------------------------------------------------------
(* The extractor applied to bounded reply payloads *)

MaxWrap == 2        \* how deep a payload is wrapped
MaxText == 30       \* the longest JSON text that is embedded in a string
MaxBare == 3        \* the longest string of braces and text tried as is

Quote == "\""
Backquote == "bq"   \* stands for the backquote character of a code fence

\* the text each recognized field holds when it holds an answer
AnswerOf(n) == StrV(<<<<"T", "O", "R", "M", "C">>[n]>>)

\* what a recognized field holds: an answer, something that is no answer
\* (an empty string for the fields of odd rank, a number for the others), or
\* nothing at all
FieldKinds == {"text", "other", "absent"}

FieldValue(n, kind) ==
    CASE kind = "text" -> AnswerOf(n)
      [] kind = "other" -> IF n % 2 = 1 THEN StrV(<<>>) ELSE NumV(FALSE)
      [] OTHER -> Undefined

\* a reply object: the recognized fields in the reverse of their priority
\* order, after an unrecognized property that holds a nested answer
ReplyObject(kinds, nested) ==
    LET present == {n \in 1..5 : kinds[n] # "absent"}
        Nth(i) == CHOOSE n \in present : Cardinality({m \in present : m > n}) = i - 1
        fields == [i \in 1..Cardinality(present) |->
                      [k |-> KnownFields[Nth(i)], v |-> FieldValue(Nth(i), kinds[Nth(i)])]]
        inner == ObjV(<<[k |-> K_text_response, v |-> StrV(<<"N">>)]>>)
    IN  ObjV((IF nested THEN <<[k |-> <<"d","a","t","a">>, v |-> inner]>> ELSE <<>>)
             \o fields)

\* values that are neither objects nor strings with braces
PlainValues ==
    <<NullV, BoolV(TRUE), BoolV(FALSE), NumV(TRUE), NumV(FALSE), ArrV(<<>>), ObjV(<<>>),
      StrV(<<>>), StrV(<<"h","i">>)>>

\* the reply shapes the extractor's documentation lists: an unrecognized
\* property that holds stringified JSON, an answer nested in an array, and
\* text whose escapes decode to braces
DocumentedReplies ==
    <<ObjV(<<[k |-> <<"s","m","s">>,
             v |-> StrV(JsonStringify(ObjV(<<[k |-> K_text_response,
                                             v |-> StrV(<<"T">>)]>>)))]>>),
      ArrV(<<ObjV(<<[k |-> K_output,
                    v |-> ObjV(<<[k |-> K_content, v |-> StrV(<<"C">>)]>>)]>>)>>),
      ObjV(<<[k |-> K_output, v |-> StrV(<<"a", "}", "b">>)]>>),
      StrV(<<"[", "\"", "\\", "u", "0", "0", "7", "b", "\\", "\"", "o", "u", "t", "p", "u",
             "t", "\\", "\"", ":", "\\", "\"", "O", "\\", "\"", "\\", "u", "0", "0", "7",
             "d", "\"", ",", "\"", "}", "{", "\"", "]">>),
      StrV(<<"\"", "\\", "u", "0", "0", "7", "b", "\\", "\"", "o", "u", "t", "p", "u", "t",
             "\\", "\"", ":", "\\", "\"", "O", "\\", "\"", "\\", "u", "0", "0", "7", "d",
             "\"">>)>>

BareAlphabet == {"{", "}", "a", " "}

\* the text put before and after embedded JSON text
Prefixes ==
    << <<>>,
       <<Backquote, Backquote, Backquote, "j", "s", "o", "n", "\n">>,
       <<"{", "x", "}", " ">>,
       <<"}", " ">> >>

Suffixes ==
    << <<>>,
       <<"\n", Backquote, Backquote, Backquote>>,
       <<" ", "o", "k">>,
       <<" ", "{">>,
       <<" ", "{", "y", "}">> >>

NoParts == [made |-> FALSE]

\* no send is modelled
SendOff ==
    /\ sdText = <<>>
    /\ sdHistory = <<>>
    /\ sdPc = "off"
    /\ sdTimer = "unset"
    /\ sdRequests = <<>>
    /\ sdFirstErr = [name |-> <<>>, message |-> <<>>]
    /\ sdThrown = [name |-> <<>>, message |-> <<>>]
    /\ sdStatus = 0
    /\ sdBody = [read |-> FALSE]
    /\ sdOutcome = [kind |-> "pending"]

\* no store is modelled
StoreOff ==
    /\ sessions = <<>>
    /\ currentSessionId = <<>>
    /\ isInitialized = FALSE
    /\ language = "zh"
    /\ isLoading = FALSE
    /\ pending = <<>>
    /\ storage = [sessions |-> [kind |-> "absent"], currentId |-> <<>>]
    /\ quotaFull = FALSE
    /\ now = 0
    /\ stPhase = "off"
    /\ stEvents = 0
    /\ stLastOp = [op |-> "none", arg |-> <<>>, before |-> 0]
    /\ stSetItem = <<>>
    /\ stUnsaved = FALSE

ExtractInit ==
    /\ SendOff
    /\ StoreOff
    /\ exPc = "ready"
    /\ exResult = Undefined
    /\ exDepth = 0
    /\ exParts = NoParts
    /\ \/ \E kinds \in [1..5 -> FieldKinds], nested \in BOOLEAN :
              exData = ReplyObject(kinds, nested)
       \/ \E n \in 1..Len(PlainValues) : exData = PlainValues[n]
       \/ \E n \in 1..Len(DocumentedReplies) : exData = DocumentedReplies[n]
       \/ \E len \in 1..MaxBare : \E s \in [1..len -> BareAlphabet] : exData = StrV(s)

\* the payload becomes the second element of an array
WrapInArray ==
    /\ exPc = "ready"
    /\ exDepth < MaxWrap
    /\ exData' = ArrV(<<NumV(FALSE), exData>>)
    /\ exDepth' = exDepth + 1
    /\ exParts' = NoParts
    /\ UNCHANGED <<exPc, exResult, sdVars, stVars>>

\* the payload becomes the value of an unrecognized property
WrapInObject ==
    /\ exPc = "ready"
    /\ exDepth < MaxWrap
    /\ exData' = ObjV(<<[k |-> <<"d","a","t","a">>, v |-> exData]>>)
    /\ exDepth' = exDepth + 1
    /\ exParts' = NoParts
    /\ UNCHANGED <<exPc, exResult, sdVars, stVars>>

\* the JSON text of an object or array is embedded in a string, between
\* other text
EmbedInString ==
    /\ exPc = "ready"
    /\ exDepth < MaxWrap
    /\ exData.t \in {"obj", "arr"}
    /\ Len(JsonStringify(exData)) <= MaxText
    /\ \E p \in 1..Len(Prefixes), q \in 1..Len(Suffixes) :
           /\ exData' = StrV(Prefixes[p] \o JsonStringify(exData) \o Suffixes[q])
           /\ exParts' = [made |-> TRUE, value |-> exData,
                          pre |-> Prefixes[p], suf |-> Suffixes[q]]
    /\ exDepth' = exDepth + 1
    /\ UNCHANGED <<exPc, exResult, sdVars, stVars>>

\* the call findResponseText(exData)
Extract ==
    /\ exPc = "ready"
    /\ exResult' = findResponseText(exData)
    /\ exPc' = "done"
    /\ UNCHANGED <<exData, exDepth, exParts, sdVars, stVars>>

ExtractNext == WrapInArray \/ WrapInObject \/ EmbedInString \/ Extract

SpecExtract == ExtractInit /\ [][ExtractNext]_vars

---------------------------------------------------------------------------
(* Properties of the extractor *)

\* a value holds a non-empty string
IsAnswerText(v) == v.t = "str" /\ Len(v.s) > 0

\* the rank of the first recognized field of an object that holds a non-empty
\* string, or 0
FirstAnswerRank(obj) ==
    IF \E n \in 1..5 : IsAnswerText(GetField(obj, KnownFields[n]))
    THEN CHOOSE n \in 1..5 :
             /\ IsAnswerText(GetField(obj, KnownFields[n]))
             /\ \A m \in 1..(n - 1) : ~IsAnswerText(GetField(obj, KnownFields[m]))
    ELSE 0

\* C1: for an object on which a recognized field holds a non-empty string, the
\* extractor returns the string of the first such field in the order
\* text_response, output, response, message, content, whatever else the object
\* holds.
C1_DirectFieldPriority ==
    (exPc = "done" /\ exData.t = "obj" /\ FirstAnswerRank(exData) # 0)
        => exResult = GetField(exData, KnownFields[FirstAnswerRank(exData)])

\* an object with a nested answer in an unrecognized first property, content
\* and output both holding answers and text_response holding an empty string:
\* output is returned
C1_Witness ==
    /\ exPc = "done"
    /\ exData.t = "obj"
    /\ Len(exData.o) = 4
    /\ exData.o[1].k = <<"d","a","t","a">>
    /\ exData.o[2].k = K_content /\ IsAnswerText(exData.o[2].v)
    /\ GetField(exData, K_text_response) = StrV(<<>>)
    /\ IsAnswerText(GetField(exData, K_output))
    /\ exResult = GetField(exData, K_output)

\* the string handed to the extractor is the JSON text of an object that holds
\* an answer in a recognized field, between some text
EmbedsAnswerObject ==
    /\ exPc = "done"
    /\ exParts.made
    /\ exParts.value.t = "obj"
    /\ FirstAnswerRank(exParts.value) # 0

EmbeddedAnswer == GetField(exParts.value, KnownFields[FirstAnswerRank(exParts.value)])

\* C2 as stated: whatever text surrounds the embedded object, braces
\* included, the extractor returns the object's answer field.
C2_AnyWrapping == EmbedsAnswerObject => exResult = EmbeddedAnswer

\* C2, amended: when the text before the object holds no "{", the text after
\* it holds no "}", and the whole trimmed string is the object's text alone or
\* is no JSON text, the extractor returns the object's answer field.
C2_BraceFreeWrapping ==
    (/\ EmbedsAnswerObject
     /\ ~IncludesChar(exParts.pre, "{")
     /\ ~IncludesChar(exParts.suf, "}")
     /\ \/ Trim(exData.s) = JsonStringify(exParts.value)
        \/ ~JsonParse(Trim(exData.s)).ok)
        => exResult = EmbeddedAnswer

\* an object's text inside a code fence, after a stray "}" or before a stray
\* "{", is found
C2_Witness ==
    /\ EmbedsAnswerObject
    /\ \/ exParts.pre = Prefixes[2] /\ exParts.suf = Suffixes[2]
       \/ exParts.pre = Prefixes[4] /\ exParts.suf = Suffixes[3]
       \/ exParts.pre = Prefixes[1] /\ exParts.suf = Suffixes[4]
    /\ exResult = EmbeddedAnswer

CountChar(s, c) == Cardinality({n \in 1..Len(s) : s[n] = c})

\* no "{" or no "}"
NoBracePair(s) == ~IncludesChar(s, "{") \/ ~IncludesChar(s, "}")

\* unequal numbers of "{" and "}", or a "}" before the first "{"
UnbalancedBraces(s) ==
    \/ CountChar(s, "{") # CountChar(s, "}")
    \/ /\ ~NoBracePair(s)
       /\ IndexOfChar(s, "}") < IndexOfChar(s, "{")

\* C3 as stated: a string with unbalanced braces, or with no brace pair,
\* yields null.
C3_UnbalancedIsNull ==
    (exPc = "done" /\ exData.t = "str"
     /\ (UnbalancedBraces(exData.s) \/ NoBracePair(exData.s)))
        => exResult = NullV

\* neither the whole trimmed text nor the text from its first "{" to its last
\* "}" is JSON text
NothingParses(s) ==
    /\ ~JsonParse(Trim(s)).ok
    /\ \/ PotentialJson(Trim(s)) = <<>>
       \/ ~JsonParse(PotentialJson(Trim(s))).ok

\* C3, amended: a string with no "{" or no "}" yields null; so does a string
\* of which neither the whole trimmed text nor the text from the first "{" to
\* the last "}" parses as JSON (unbalanced braces alone do not force null); and
\* a string is never itself returned as the answer.
C3_NoPairOrNoParseIsNull ==
    (exPc = "done" /\ exData.t = "str")
        => /\ (NoBracePair(exData.s) \/ NothingParses(exData.s)) => exResult = NullV
           /\ exResult # exData

\* a string without raw braces whose escapes decode to an object's text, and a
\* string of unbalanced braces, both yield null
C3_Witness ==
    /\ exPc = "done"
    /\ exData.t = "str"
    /\ exResult = NullV
    /\ \/ NoBracePair(exData.s) /\ JsonParse(exData.s).ok /\ Len(exData.s) > 20
       \/ exData.s = <<"{", "{", "}">>

\* some recognized field, of the value or of a value nested in it or written
\* as JSON text inside one of its strings, holds a non-empty string
RECURSIVE HasAnswerAnywhere(_)
HasAnswerAnywhere(v) ==
    CASE v.t = "obj" ->
            \/ FirstAnswerRank(v) # 0
            \/ \E n \in 1..Len(v.o) : HasAnswerAnywhere(v.o[n].v)
      [] v.t = "arr" -> \E n \in 1..Len(v.a) : HasAnswerAnywhere(v.a[n])
      [] v.t = "str" ->
            \E i \in 1..Len(v.s) : \E j \in (i + 1)..Len(v.s) :
                /\ v.s[i] \in {"{", "[", "\""}
                /\ v.s[j] \in {"}", "]", "\""}
                /\ Bind(JsonParse(SubSeq(v.s, i, j)), LAMBDA r :
                       r.ok /\ HasAnswerAnywhere(r.v))
      [] OTHER -> FALSE

\* C4: on a value in which no recognized field holds a non-empty string
\* anywhere, the extractor ends and returns null.
C4_NoAnswerIsNull ==
    (exPc = "done" /\ ~HasAnswerAnywhere(exData)) => exResult = NullV

\* a twice wrapped payload with fields that hold no answer, inside a string
C4_Witness ==
    /\ exPc = "done"
    /\ exDepth = 2
    /\ exParts.made
    /\ exParts.value.t = "obj"
    /\ \E n \in 1..Len(exParts.value.o) : exParts.value.o[n].v.t = "obj"
    /\ ~HasAnswerAnywhere(exData)
    /\ exResult = NullV

---------------------------------------------------------------------------
(* The remote send operation, services/orionService.ts sendMessageToOrion. *)
(* The fixed texts the source writes in Chinese are written here as one     *)
(* token each: only their identity matters, except for the characters      *)
(* "(404)" and the status digits, which the catch block searches.          *)

\* the decimal digits of a natural number, as ${...} writes them
RECURSIVE NatToChars(_)
NatToChars(n) ==
    IF n < 10 THEN <<(<<"0", "1", "2", "3", "4", "5", "6", "7", "8", "9">>)[n + 1]>>
    ELSE NatToChars(n \div 10) \o NatToChars(n % 10)

\* Array.prototype.join
RECURSIVE Join(_, _)
Join(lines, sep) ==
    IF Len(lines) = 0 THEN <<>>
    ELSE IF Len(lines) = 1 THEN lines[1]
    ELSE lines[1] \o sep \o Join(Tail(lines), sep)

ContextLimit == 10

StartMarker == <<"dang qian shi dui hua de kai shi.">>

IntentAuto == <<"zi dong">>

ApiKey == <<"164182930qwas">>

\* history.filter(m => m.content !== text)
previousMessages(text, history) ==
    SelectSeq(history, LAMBDA m : m.content # text)

\* slice(-10) keeping the first messages instead of the last
SliceFirst(msgs, n) ==
    IF Len(msgs) <= n THEN msgs ELSE SubSeq(msgs, 1, n)

\* slice(-n)
SliceLast(msgs, n) ==
    IF Len(msgs) <= n THEN msgs ELSE SubSeq(msgs, Len(msgs) - n + 1, Len(msgs))

\* one line of the context
RenderLine(m) ==
    (IF m.role = "user" THEN <<"U", "s", "e", "r">> ELSE <<"O", "r", "i", "o", "n">>)
        \o <<":", " ">> \o m.content

\* the memory context sent with the request
memoryContext(text, history) ==
    Bind(previousMessages(text, history), LAMBDA prev :
        IF Len(prev) > 0
        THEN Bind(SliceLast(SelectSeq(prev, LAMBDA m : Trim(m.content) # <<>>),
                            ContextLimit),
                  LAMBDA kept :
                      Join(AsTuple([n \in 1..Len(kept) |-> RenderLine(kept[n])]),
                           <<"\n">>))
        ELSE StartMarker)

basePayload(text, history) ==
    [free_text |-> Trim(text),
     intent_selection |-> IntentAuto,
     memory_context |-> memoryContext(text, history)]

\* the first call carries the key in a header, the fallback call in the body
FirstRequest(payload) ==
    [headers |-> {"Content-Type", "X-API-KEY", "Accept"},
     body |-> {<<"free_text", payload.free_text>>,
               <<"intent_selection", payload.intent_selection>>,
               <<"memory_context", payload.memory_context>>}]

FallbackRequest(payload) ==
    [headers |-> {"Content-Type", "Accept"},
     body |-> {<<"free_text", payload.free_text>>,
               <<"intent_selection", payload.intent_selection>>,
               <<"memory_context", payload.memory_context>>,
               <<"api_key", ApiKey>>, <<"x_api_key", ApiKey>>}]

ErrV(name, message) == [name |-> name, message |-> message]

FailedToFetch == <<"F", "a", "i", "l", "e", "d", " ", "t", "o", " ", "f", "e", "t", "c", "h">>

LoadFailed == <<"L", "o", "a", "d", " ", "f", "a", "i", "l", "e", "d">>

\* what a network call or a body read can fail with when the transport fails
TransportErrors == {ErrV("TypeError", FailedToFetch), ErrV("TypeError", LoadFailed)}

\* what a network call fails with when controller.abort() is called
AbortError == ErrV("AbortError", <<"s", "i", "g", "n", "a", "l", " ", "i", "s", " ",
                                   "a", "b", "o", "r", "t", "e", "d">>)

NotFoundMessage ==
    <<"lian jie di zhi cuo wu", " ", "(", "4", "0", "4", ")", ". ru guo nin ...">>

UnstableMessage(status) ==
    <<"lian jie bu wen ding", " ", "(">> \o NatToChars(status) \o <<")">>

TimeoutMessage == <<"Orion si kao chao shi le (qing jian cha N8N shi fou ka zhu).">>

ConnectionLostMessage == <<"wang luo lian jie si hu duan kai le.">>

UndecodableMessage == <<"Orion shou dao xin hao, dan wu fa jie ma nei rong (ge shi jie xi cuo wu).">>

Resolved(value) == [kind |-> "resolved", value |-> value]

Rejected(err) == [kind |-> "rejected", name |-> err.name, message |-> err.message]

\* response.ok
ResponseOk(status) == status >= 200 /\ status <= 299

\* jsonResult: the parsed body, or null when it does not parse
JsonResult(textResult) ==
    Bind(JsonParse(textResult), LAMBDA parsed : IF parsed.ok THEN parsed.v ELSE NullV)

\* jsonResult?.message
MessageOf(jsonResult) ==
    IF jsonResult.t = "obj" THEN GetField(jsonResult, K_message) ELSE Undefined

\* String(v), which new Error(v) applies to its argument. Numbers keep only
\* whether they are zero in this model, and arrays are not rendered: no body
\* drawn below holds either under "message"
ToStringV(v) ==
    CASE v.t = "str" -> v.s
      [] v.t = "bool" -> IF v.b THEN <<"t", "r", "u", "e">> ELSE <<"f", "a", "l", "s", "e">>
      [] v.t = "obj" -> <<"[", "o", "b", "j", "e", "c", "t", " ",
                          "O", "b", "j", "e", "c", "t", "]">>
      [] OTHER -> <<"#">>

\* the status test taking the body's message for status 404 too
ServiceErrorBodyFirst(status, jsonResult) ==
    IF Truthy(MessageOf(jsonResult))
    THEN ErrV("Error", ToStringV(MessageOf(jsonResult)))
    ELSE ErrV("Error", UnstableMessage(status))

\* the error thrown for a response whose status is not ok
ServiceError(status, jsonResult) ==
    IF status = 404 THEN ErrV("Error", NotFoundMessage)
    ELSE IF Truthy(MessageOf(jsonResult))
    THEN ErrV("Error", ToStringV(MessageOf(jsonResult)))
    ELSE ErrV("Error", UnstableMessage(status))

\* what is returned for a response whose status is ok
SuccessValue(textResult, jsonResult) ==
    Bind(IF Truthy(jsonResult) THEN findResponseText(jsonResult) ELSE NullV,
         LAMBDA foundText :
             IF Truthy(foundText) THEN foundText.s
             ELSE IF Len(textResult) > 0 /\ Len(Trim(textResult)) > 0
                     /\ ~Truthy(jsonResult)
             THEN textResult
             ELSE UndecodableMessage)

\* the catch block recognizing a transport failure by the message of the
\* first branch instead of by the error's name
CatchOutcomeTypeErrorByMessage(error) ==
    IF error.name = "AbortError" THEN Resolved(TimeoutMessage)
    ELSE IF error.message = FailedToFetch THEN Resolved(ConnectionLostMessage)
    ELSE IF Includes(error.message, <<"4", "0", "4">>) THEN Resolved(error.message)
    ELSE Rejected(error)

\* the catch block without its test for TypeError
CatchOutcomeNoTypeError(error) ==
    IF error.name = "AbortError" THEN Resolved(TimeoutMessage)
    ELSE IF Includes(error.message, <<"4", "0", "4">>) THEN Resolved(error.message)
    ELSE Rejected(error)

\* the catch block: how the promise settles for an error thrown inside
CatchOutcome(error) ==
    IF error.name = "AbortError" THEN Resolved(TimeoutMessage)
    ELSE IF error.name = "TypeError" THEN Resolved(ConnectionLostMessage)
    ELSE IF Includes(error.message, <<"4", "0", "4">>) THEN Resolved(error.message)
    ELSE Rejected(error)

\* how the promise settles once the body text has been read
SettleResponse(status, textResult) ==
    Bind(JsonResult(textResult), LAMBDA jsonResult :
        IF ~ResponseOk(status) THEN CatchOutcome(ServiceError(status, jsonResult))
        ELSE Resolved(SuccessValue(textResult, jsonResult)))

---------------------------------------------------------------------------
(* The send operation applied to bounded histories and replies *)

MaxHist == 12

\* the text being sent
SendText == <<"h", "i", " ">>

\* a message of the history: like the one before it, or equal to the text
\* being sent, or with empty or blank content
MessageKinds == {"same", "empty", "blank"}

HistoryMessage(n, kind) ==
    [role |-> IF n % 2 = 1 THEN "user" ELSE "assistant",
     content |-> CASE kind = "same" -> SendText
                   [] kind = "empty" -> <<>>
                   [] kind = "blank" -> <<" ", "\n">>
                   [] OTHER -> <<"m">> \o NatToChars(n)]

\* a history of len messages, those at p and q (0 for none) of the kinds given;
\* the histories drawn have one such message anywhere, or two of which one is
\* the last message
HistoryOf(len, p, kp, q, kq) ==
    AsTuple([n \in 1..len |->
        HistoryMessage(n, IF n = p THEN kp ELSE IF n = q THEN kq ELSE "plain")])

ObjectText(key, value) == JsonStringify(ObjV(<<[k |-> key, v |-> value]>>))

\* the response bodies drawn: empty, blank, plain text, JSON text in a code
\* fence, and JSON texts with and without message and answer fields
Bodies ==
    << <<>>,
       <<" ", "\n">>,
       <<"n", "o", "p", "e">>,
       Prefixes[2] \o ObjectText(K_output, StrV(<<"O">>)) \o Suffixes[2],
       ObjectText(K_message, StrV(<<"b", "o", "o", "m">>)),
       ObjectText(K_message, StrV(<<"e", "4", "0", "4">>)),
       ObjectText(K_message, StrV(<<>>)),
       ObjectText(K_message, ObjV(<<>>)),
       ObjectText(K_output, StrV(<<"O">>)),
       ObjectText(<<"x">>, NumV(FALSE)),
       JsonStringify(DocumentedReplies[1]),
       <<"n", "u", "l", "l">>,
       <<"f", "a", "l", "s", "e">>,
       <<"0">>,
       <<"\"", "h", "i", "\"">> >>

Statuses == {200, 300, 404, 500}

\* no extraction is modelled
ExtractOff ==
    /\ exData = NullV
    /\ exPc = "off"
    /\ exResult = Undefined
    /\ exDepth = 0
    /\ exParts = NoParts

SendInit ==
    /\ ExtractOff
    /\ StoreOff
    /\ sdText = SendText
    /\ \E len \in 0..MaxHist : \E p \in 0..len, q \in 0..len :
       \E kp \in MessageKinds, kq \in MessageKinds :
           /\ p = 0 \/ (p < q /\ q = len)
           /\ sdHistory = HistoryOf(len, p, kp, q, kq)
    /\ sdPc = "called"
    /\ sdTimer = "unset"
    /\ sdRequests = <<>>
    /\ sdFirstErr = [name |-> <<>>, message |-> <<>>]
    /\ sdThrown = [name |-> <<>>, message |-> <<>>]
    /\ sdStatus = 0
    /\ sdBody = [read |-> FALSE]
    /\ sdOutcome = [kind |-> "pending"]

\* the call up to its first await: the timer is armed, the context and the
\* payload are built and the first network call is issued
StartSend ==
    /\ sdPc = "called"
    /\ sdTimer' = "armed"
    /\ sdRequests' = <<FirstRequest(basePayload(sdText, sdHistory))>>
    /\ sdPc' = "fetch1"
    /\ UNCHANGED <<sdText, sdHistory, sdFirstErr, sdThrown, sdStatus, sdBody, sdOutcome,
                   exVars, stVars>>

\* the promise settles from the catch block, which clears the timer
SettleWith(outcome) ==
    /\ sdOutcome' = outcome
    /\ sdPc' = "settled"
    /\ sdTimer' = IF sdTimer = "armed" THEN "cleared" ELSE sdTimer

\* a network call is answered with a status line and headers: the timer is
\* cleared and the body read begins
FetchResponds(status) ==
    /\ sdPc \in {"fetch1", "fetch2"}
    /\ sdStatus' = status
    /\ sdTimer' = "cleared"
    /\ sdPc' = "body"
    /\ UNCHANGED <<sdText, sdHistory, sdRequests, sdFirstErr, sdThrown, sdBody, sdOutcome,
                   exVars, stVars>>

\* the fallback call's own error thrown on when the fallback call fails
FetchRejectedThrowsFallbackError(err) ==
    IF sdPc = "fetch1" /\ err.name = "TypeError" /\ err.message = FailedToFetch
    THEN /\ sdRequests' = Append(sdRequests,
                                 FallbackRequest(basePayload(sdText, sdHistory)))
         /\ sdFirstErr' = err
         /\ sdPc' = "fetch2"
         /\ UNCHANGED <<sdOutcome, sdTimer, sdThrown>>
    ELSE /\ SettleWith(CatchOutcome(err))
         /\ sdThrown' = err
         /\ sdFirstErr' = IF sdPc = "fetch1" THEN err ELSE sdFirstErr
         /\ UNCHANGED sdRequests

\* a network call is rejected with err. The first call's "Failed to fetch"
\* leads to the fallback call; any other error of the first call is thrown
\* on; an error of the fallback call throws the first call's error
FetchRejected(err) ==
    IF sdPc = "fetch1" /\ err.name = "TypeError" /\ err.message = FailedToFetch
    THEN /\ sdRequests' = Append(sdRequests,
                                 FallbackRequest(basePayload(sdText, sdHistory)))
         /\ sdFirstErr' = err
         /\ sdPc' = "fetch2"
         /\ UNCHANGED <<sdOutcome, sdTimer, sdThrown>>
    ELSE /\ SettleWith(CatchOutcome(IF sdPc = "fetch1" THEN err ELSE sdFirstErr))
         /\ sdThrown' = IF sdPc = "fetch1" THEN err ELSE sdFirstErr
         /\ sdFirstErr' = IF sdPc = "fetch1" THEN err ELSE sdFirstErr
         /\ UNCHANGED sdRequests

\* the transport fails during a network call
FetchFails(err) ==
    /\ sdPc \in {"fetch1", "fetch2"}
    /\ sdTimer = "armed"
    /\ FetchRejected(err)
    /\ UNCHANGED <<sdText, sdHistory, sdStatus, sdBody, exVars, stVars>>

\* the 90 s timer fires during a network call: controller.abort() rejects the
\* pending call with an AbortError
DeadlineFires ==
    /\ sdPc \in {"fetch1", "fetch2"}
    /\ sdTimer = "armed"
    /\ sdOutcome' = CatchOutcome(IF sdPc = "fetch1" THEN AbortError ELSE sdFirstErr)
    /\ sdThrown' = IF sdPc = "fetch1" THEN AbortError ELSE sdFirstErr
    /\ sdFirstErr' = IF sdPc = "fetch1" THEN AbortError ELSE sdFirstErr
    /\ sdPc' = "settled"
    /\ sdTimer' = "fired"
    /\ UNCHANGED <<sdText, sdHistory, sdRequests, sdStatus, sdBody, exVars, stVars>>

\* response.text() delivers the body: it is parsed and the promise settles
BodyArrives(textResult) ==
    /\ sdPc = "body"
    /\ sdBody' = [read |-> TRUE, text |-> textResult]
    /\ SettleWith(SettleResponse(sdStatus, textResult))
    /\ sdThrown' = IF ResponseOk(sdStatus) THEN sdThrown
                   ELSE ServiceError(sdStatus, JsonResult(textResult))
    /\ UNCHANGED <<sdText, sdHistory, sdRequests, sdFirstErr, sdStatus, exVars, stVars>>

\* response.text() is rejected because the transport fails
BodyFails(err) ==
    /\ sdPc = "body"
    /\ SettleWith(CatchOutcome(err))
    /\ sdThrown' = err
    /\ UNCHANGED <<sdText, sdHistory, sdRequests, sdFirstErr, sdStatus, sdBody, exVars, stVars>>

SendNext ==
    \/ StartSend
    \/ \E status \in Statuses : FetchResponds(status)
    \/ \E err \in TransportErrors : FetchFails(err)
    \/ DeadlineFires
    \/ \E n \in 1..Len(Bodies) : BodyArrives(Bodies[n])
    \/ \E err \in TransportErrors : BodyFails(err)

SpecSend == SendInit /\ [][SendNext]_vars

\* The send with what its scheduling guarantees: the synchronous part of the
\* call runs to its first await, and the timer armed by setTimeout fires
\* unless it is cleared or the call has settled first. The network owes
\* nothing: no answer, no failure, no end of the body.
SpecSendFair ==
    /\ SendInit
    /\ [][SendNext]_vars
    /\ WF_vars(StartSend)
    /\ WF_vars(DeadlineFires)

---------------------------------------------------------------------------
(* Properties of the send operation *)

\* the value of a field of the body of the n-th network call
SentField(n, field) == (CHOOSE f \in sdRequests[n].body : f[1] = field)[2]

\* the history positions whose message differs from the text sent and has a
\* character that is not white space
QualifyingPositions ==
    {n \in 1..Len(sdHistory) :
        /\ sdHistory[n].content # sdText
        /\ \E c \in 1..Len(sdHistory[n].content) :
               sdHistory[n].content[c] \notin {" ", "\t", "\n", "\r", "\f"}}

\* the last 10 of them
LastTenQualifying ==
    {n \in QualifyingPositions :
        Cardinality({later \in QualifyingPositions : later > n}) < 10}

\* the messages at the positions given, in history order, one per line, as
\* "User: <content>" or "Orion: <content>"
RECURSIVE LinesOf(_)
LinesOf(positions) ==
    IF positions = {} THEN <<>>
    ELSE LET first == CHOOSE n \in positions : \A other \in positions : n <= other
         IN  (IF sdHistory[first].role = "user"
              THEN <<"U", "s", "e", "r", ":", " ">>
              ELSE <<"O", "r", "i", "o", "n", ":", " ">>)
             \o sdHistory[first].content
             \o (IF positions = {first} THEN <<>>
                 ELSE <<"\n">> \o LinesOf(positions \ {first}))

\* C5: the memory context of every network call of a send is made of exactly
\* the last 10 (or fewer) history messages whose content differs from the
\* text sent and is not blank, in history order, each as "User: <content>" or
\* "Orion: <content>"; when no message qualifies it holds no message at all
\* (it is the start marker or empty).
C5_ContextIsLastTenQualifying ==
    \A n \in 1..Len(sdRequests) :
        IF LastTenQualifying # {}
        THEN SentField(n, "memory_context") = LinesOf(LastTenQualifying)
        ELSE SentField(n, "memory_context") \in {StartMarker, <<>>}

\* a history of 12 messages, the last equal to the text sent, 11 qualifying:
\* the first message is left out, the last is left out
C5_Witness ==
    /\ Len(sdRequests) = 2
    /\ Len(sdHistory) = 12
    /\ sdHistory[12].content = sdText
    /\ Cardinality(QualifyingPositions) = 11
    /\ LastTenQualifying = 2..11
    /\ SentField(2, "memory_context") = LinesOf(2..11)
    /\ SentField(2, "free_text") = <<"h", "i">>

\* C6: when the service answers with status 404 and the body is read,
\* whatever the body holds, the send yields the endpoint-misconfigured
\* message.
C6_NotFoundMessageForEveryBody ==
    (sdPc = "settled" /\ sdStatus = 404 /\ sdBody.read)
        => sdOutcome = [kind |-> "resolved", value |-> NotFoundMessage]

\* a 404 whose body is JSON with a message field of its own
C6_Witness ==
    /\ sdPc = "settled"
    /\ sdStatus = 404
    /\ sdBody.read
    /\ sdBody.text = Bodies[5]
    /\ sdOutcome = [kind |-> "resolved", value |-> NotFoundMessage]

\* the fallback call was issued and failed too
FallbackExhausted ==
    /\ sdPc = "settled"
    /\ Len(sdRequests) = 2
    /\ sdStatus = 0

\* C7 as stated: the send rejects only when the fallback is exhausted, and
\* resolves in every other outcome.
C7_RejectsOnlyWhenExhausted ==
    sdPc = "settled" => (sdOutcome.kind = "rejected" <=> FallbackExhausted)

\* C7, amended: the send rejects only for a response whose body was read and
\* whose status indicates failure and is not 404, whether or not the fallback
\* call was made, and then with an Error, not a transport exception; in every
\* other outcome (successful reply, timeout, 404, transport failure including
\* an exhausted fallback) it resolves to a string.
C7_RejectsOnlyOnServiceError ==
    sdPc = "settled" =>
        /\ sdOutcome.kind \in {"resolved", "rejected"}
        /\ sdOutcome.kind = "rejected" =>
               /\ sdBody.read
               /\ ~(sdStatus >= 200 /\ sdStatus <= 299)
               /\ sdStatus # 404
               /\ sdOutcome.name = "Error"
        /\ FallbackExhausted => sdOutcome.kind = "resolved"

\* a status 500 answer to the first call rejects, no fallback involved; and
\* an exhausted fallback resolves
C7_Witness ==
    /\ sdPc = "settled"
    /\ \/ /\ sdOutcome.kind = "rejected"
          /\ Len(sdRequests) = 1
          /\ sdStatus = 500
       \/ /\ FallbackExhausted
          /\ sdTimer = "cleared"
          /\ sdOutcome = [kind |-> "resolved", value |-> ConnectionLostMessage]

\* C16: whenever the 90 s deadline cancels a send, in whatever step the send
\* is, the send yields the timed-out outcome and no other.
C16_DeadlineYieldsTimeout ==
    (sdPc = "settled" /\ sdTimer = "fired") => sdOutcome = Resolved(TimeoutMessage)

\* C17: every transport failure of a send (of the first call, of the fallback
\* call after a cross-origin block, of the body read) is turned into the
\* resolved connection-lost string, and the send never rejects with a
\* TypeError or an AbortError.
C17_TransportFailureIsConnectionLost ==
    sdPc = "settled" =>
        /\ (sdTimer # "fired" /\ ~sdBody.read)
               => /\ sdThrown.name = "TypeError"
                  /\ sdOutcome = Resolved(ConnectionLostMessage)
        /\ sdThrown.name = "TypeError" => sdOutcome = Resolved(ConnectionLostMessage)
        /\ sdOutcome.kind = "rejected" => sdOutcome.name \notin {"TypeError", "AbortError"}

\* after a cross-origin block the fallback call was answered with status 200
\* and the read of the body failed with "Load failed": connection lost
C17_Witness ==
    /\ sdPc = "settled"
    /\ Len(sdRequests) = 2
    /\ sdStatus = 200
    /\ ~sdBody.read
    /\ sdThrown = ErrV("TypeError", LoadFailed)
    /\ sdOutcome = Resolved(ConnectionLostMessage)

\* what C18 says a response with an ok status yields for the body text given
ClaimedSuccessValue(textResult) ==
    Bind(JsonParse(textResult), LAMBDA parsed :
        IF parsed.ok /\ Truthy(findResponseText(parsed.v))
        THEN findResponseText(parsed.v).s
        ELSE IF ~parsed.ok /\ Len(Trim(textResult)) > 0
        THEN textResult
        ELSE UndecodableMessage)

\* C18: for a response with an ok status the send returns the extractor's
\* result when the body parsed and the extractor found text, the raw text
\* only when the text is not blank and did not parse, and the undecodable
\* placeholder in every other case (a body that parsed, also to null, false,
\* 0 or a string, with no text found; a blank body).
C18_SuccessDecoding ==
    (sdPc = "settled" /\ sdBody.read /\ ResponseOk(sdStatus))
        => sdOutcome = Resolved(ClaimedSuccessValue(sdBody.text))

\* C19: a send issues at most two network calls, the first with the key in a
\* header and the second with the key in the body; the second is issued
\* exactly when the first call failed with TypeError 'Failed to fetch'; any
\* other failure of the first call ends the send with one call made; and when
\* the fallback call fails the error raised is the first call's error.
C19_FallbackOnceOnCrossOriginFailure ==
    /\ Len(sdRequests) <= 2
    /\ Len(sdRequests) >= 1 => "X-API-KEY" \in sdRequests[1].headers
    /\ Len(sdRequests) = 2
           => /\ sdFirstErr = ErrV("TypeError", FailedToFetch)
              /\ "X-API-KEY" \notin sdRequests[2].headers
              /\ SentField(2, "api_key") = ApiKey
              /\ SentField(2, "x_api_key") = ApiKey
              /\ \A field \in {"free_text", "intent_selection", "memory_context"} :
                     SentField(2, field) = SentField(1, field)
    /\ sdFirstErr = ErrV("TypeError", FailedToFetch) => Len(sdRequests) = 2
    /\ (sdFirstErr.message \notin {<<>>, FailedToFetch} \/ sdFirstErr.name = "AbortError")
           => /\ Len(sdRequests) = 1
              /\ sdPc = "settled"
              /\ sdThrown = sdFirstErr
    /\ (sdPc = "settled" /\ Len(sdRequests) = 2 /\ sdStatus = 0)
           => sdThrown = ErrV("TypeError", FailedToFetch)

\* the fallback call failed with "Load failed" after the first call had
\* failed with "Failed to fetch", and the error raised is the first one
C19_Witness ==
    /\ sdPc = "settled"
    /\ Len(sdRequests) = 2
    /\ sdStatus = 0
    /\ sdTimer = "cleared"
    /\ sdThrown = ErrV("TypeError", FailedToFetch)
    /\ sdOutcome.kind = "resolved"

\* C20: for every response whose status is not ok and not 404 the send
\* rejects with an error whose message is the message of the parsed body when
\* it has one, and otherwise contains the status code, whatever the body.
C20_ServiceErrorRejects ==
    (sdPc = "settled" /\ sdBody.read /\ ~ResponseOk(sdStatus) /\ sdStatus # 404)
        => /\ sdOutcome.kind = "rejected"
           /\ IF Truthy(MessageOf(JsonResult(sdBody.text)))
              THEN sdOutcome.message = ToStringV(MessageOf(JsonResult(sdBody.text)))
              ELSE Includes(sdOutcome.message, NatToChars(sdStatus))

\* C23: whenever no history message remains after those equal to the text
\* sent and the blank ones are left out, the memory_context sent is the
\* start-of-conversation marker, never the empty string.
C23_EmptyContextIsMarker ==
    \A n \in 1..Len(sdRequests) :
        /\ SentField(n, "memory_context") # <<>>
        /\ QualifyingPositions = {} => SentField(n, "memory_context") = StartMarker

\* C30: every send that was started settles: once the call is made its
\* promise is eventually resolved or rejected, whatever the network does,
\* also when the headers of the answer arrive and its body never ends.
C30_EverySendSettles ==
    (sdPc = "called") ~> (sdOutcome.kind # "pending")

---------------------------------------------------------------------------
(* The session store kept by the App component (sw.js, lines 100-229) and   *)
(* the handlers of ChatInterface that write to it. An event handler, the    *)
(* render it causes and the effects of that render are one step. The two    *)
(* placeholder titles are written with one token for each of their Chinese  *)
(* characters and for the sparkles sign. A message's feedback flag that is  *)
(* undefined is written FALSE.                                              *)

\* currentSessionId's null
NoId == <<>>

TitleZh == <<"sparkles", " ", "xin", "dui", "hua">>

TitleEn == <<"sparkles", " ", "N", "e", "w", " ", "C", "h", "a", "t">>

TitleLength == 20

createSessionObject(lang, t) ==
    [id |-> NatToChars(t),
     title |-> IF lang = "zh" THEN TitleZh ELSE TitleEn,
     messages |-> <<>>,
     updatedAt |-> t]

\* the title cut to 20 characters with no ellipsis added
DerivedTitleNoEllipsis(firstMsg) ==
    IF Len(firstMsg) > TitleLength
    THEN SubSeq(firstMsg, 1, TitleLength)
    ELSE firstMsg

\* firstMsg.slice(0, 20) + (firstMsg.length > 20 ? '...' : '')
DerivedTitle(firstMsg) ==
    IF Len(firstMsg) > TitleLength
    THEN SubSeq(firstMsg, 1, TitleLength) \o <<".", ".", ".">>
    ELSE firstMsg

\* what updateCurrentMessages makes of the session it applies to
UpdatedSession(session, newMessages, t) ==
    [id |-> session.id,
     title |-> IF /\ \/ session.title = TitleZh
                     \/ session.title = TitleEn
                     \/ Len(session.messages) = 0
                  /\ Len(newMessages) > 0
               THEN DerivedTitle(newMessages[1].content)
               ELSE session.title,
     messages |-> newMessages,
     updatedAt |-> t]

\* prev.map(...) of updateCurrentMessages, for the handler's currentSessionId
MapCurrent(prev, id, newMessages, t) ==
    AsTuple([n \in 1..Len(prev) |->
        IF prev[n].id = id THEN UpdatedSession(prev[n], newMessages, t) ELSE prev[n]])

\* sessions.find(s => s.id === currentSessionId)'s messages, or []
getCurrentMessages(sess, id) ==
    IF \E n \in 1..Len(sess) : sess[n].id = id
    THEN sess[CHOOSE n \in 1..Len(sess) :
                 /\ sess[n].id = id
                 /\ \A m \in 1..(n - 1) : sess[m].id # id].messages
    ELSE <<>>

\* deleteSession without the creation of a session when none is left
AfterDeleteNoCreate(sess, id, current, newSession) ==
    Bind(SelectSeq(sess, LAMBDA x : x.id # id), LAMBDA newSessions :
        IF Len(newSessions) = 0
        THEN [sessions |-> newSessions, current |-> current]
        ELSE IF current = id
        THEN [sessions |-> newSessions, current |-> newSessions[1].id]
        ELSE [sessions |-> newSessions, current |-> current])

\* deleteSession creating the session with setSessions([newSession, ...sessions])
\* on the collection the handler was rendered with
AfterDeleteStaleCreate(sess, id, current, newSession) ==
    Bind(SelectSeq(sess, LAMBDA x : x.id # id), LAMBDA newSessions :
        IF Len(newSessions) = 0
        THEN [sessions |-> <<newSession>> \o sess, current |-> newSession.id]
        ELSE IF current = id
        THEN [sessions |-> newSessions, current |-> newSessions[1].id]
        ELSE [sessions |-> newSessions, current |-> current])

\* the state deleteSession leaves: the queued updates setSessions(newSessions),
\* setSessions(prev => [newSession, ...prev]) and setCurrentSessionId applied
\* in order
AfterDelete(sess, id, current, newSession) ==
    Bind(SelectSeq(sess, LAMBDA x : x.id # id), LAMBDA newSessions :
        IF Len(newSessions) = 0
        THEN [sessions |-> <<newSession>> \o newSessions, current |-> newSession.id]
        ELSE IF current = id
        THEN [sessions |-> newSessions, current |-> newSessions[1].id]
        ELSE [sessions |-> newSessions, current |-> current])

\* a message stored without its feedback flags
StoredMessageNoFeedback(m) ==
    [m EXCEPT !.timestamp = [type |-> "string", ms |-> m.timestamp.ms],
              !.isLiked = FALSE, !.isDisliked = FALSE]

\* JSON.stringify then JSON.parse of the collection: a message's Date becomes
\* the ISO string of its instant (Date.prototype.toJSON), a string stays
StoredMessage(m) ==
    [m EXCEPT !.timestamp = [type |-> "string", ms |-> m.timestamp.ms]]

StoredSession(x) ==
    [x EXCEPT !.messages = AsTuple([n \in 1..Len(x.messages) |->
                                        StoredMessage(x.messages[n])])]

Serialize(sess) ==
    [kind |-> "array",
     v |-> AsTuple([n \in 1..Len(sess) |-> StoredSession(sess[n])])]

\* loadedSessions: the stored array, or [] when the entry is absent, does not
\* parse or is no array
LoadedSessions(stored) == IF stored.kind = "array" THEN stored.v ELSE <<>>

\* the init effect restoring whatever id was remembered
AfterLoadKeepRemembered(stored, savedSessionId, t) ==
    Bind(LoadedSessions(stored), LAMBDA loadedSessions :
        IF Len(loadedSessions) > 0
        THEN [sessions |-> loadedSessions,
              current |-> IF savedSessionId # NoId THEN savedSessionId
                          ELSE loadedSessions[1].id]
        ELSE [sessions |-> <<createSessionObject("zh", t)>>,
              current |-> createSessionObject("zh", t).id])

\* the state the init effect sets
AfterLoad(stored, savedSessionId, t) ==
    Bind(LoadedSessions(stored), LAMBDA loadedSessions :
        IF Len(loadedSessions) > 0
        THEN [sessions |-> loadedSessions,
              current |-> IF /\ savedSessionId # NoId
                             /\ \E n \in 1..Len(loadedSessions) :
                                    loadedSessions[n].id = savedSessionId
                          THEN savedSessionId
                          ELSE loadedSessions[1].id]
        ELSE [sessions |-> <<createSessionObject("zh", t)>>,
              current |-> createSessionObject("zh", t).id])

\* handleToggleFeedback's map over the messages
ToggledMessages(messages, id, type) ==
    AsTuple([n \in 1..Len(messages) |->
        IF messages[n].id # id THEN messages[n]
        ELSE IF type = "like"
        THEN [messages[n] EXCEPT !.isLiked = ~messages[n].isLiked, !.isDisliked = FALSE]
        ELSE [messages[n] EXCEPT !.isDisliked = ~messages[n].isDisliked, !.isLiked = FALSE]])

\* every pending send's ChatInterface is unmounted
Orphaned(sends) ==
    AsTuple([n \in 1..Len(sends) |-> [sends[n] EXCEPT !.mounted = FALSE]])

RemoveAt(seq, k) == SubSeq(seq, 1, k - 1) \o SubSeq(seq, k + 1, Len(seq))

---------------------------------------------------------------------------
(* The store under sequences of at most MaxEvents events: the mount, user  *)
(* events, replies, clock ticks and page reloads                           *)

MaxEvents == 5

LongText ==
    <<"a", "b", "c", "d", "e", "f", "g", "h", "i", "j", "k",
      "l", "m", "n", "o", "p", "q", "r", "s", "t", "u">>

\* what the user may submit: a short text, a text of 21 characters, a blank
UserTexts == {<<"h", "i">>, LongText, <<" ">>}

ReplyTexts == {<<"o", "k">>}

\* a collection left in localStorage by an earlier visit or another build of
\* the page, newest session first: a session that still has the placeholder
\* title and holds a message sent at clock reading 1 and its reply, received
\* within that clock reading and liked since, and a session that was given a
\* title of its own and holds no message
EarlierSessions ==
    <<[id |-> <<"1">>, title |-> TitleEn,
       messages |-> <<[id |-> <<"1">>, role |-> "user", content |-> <<"y", "o">>,
                       timestamp |-> [type |-> "string", ms |-> 1], isLiked |-> FALSE,
                       isDisliked |-> FALSE],
                      [id |-> <<"2">>, role |-> "assistant", content |-> <<"o", "k">>,
                       timestamp |-> [type |-> "string", ms |-> 1], isLiked |-> TRUE,
                       isDisliked |-> FALSE]>>,
       updatedAt |-> 1],
      [id |-> <<"0">>, title |-> <<"M", "y">>, messages |-> <<>>, updatedAt |-> 0]>>

\* what localStorage holds when the page is first opened: nothing, or an
\* orion_sessions entry that does not parse, is no array, is the empty array
\* or is a collection, with or without a remembered id
FirstStorage ==
    {[sessions |-> [kind |-> k], currentId |-> id] :
        k \in {"absent", "garbage", "notArray"}, id \in {NoId, <<"9">>}}
    \cup {[sessions |-> [kind |-> "array", v |-> <<>>], currentId |-> id] :
             id \in {NoId, <<"9">>}}
    \cup {[sessions |-> [kind |-> "array", v |-> EarlierSessions],
            currentId |-> <<"0">>]}

StoreInit ==
    /\ ExtractOff
    /\ SendOff
    /\ sessions = <<>>
    /\ currentSessionId = NoId
    /\ isInitialized = FALSE
    /\ language = "zh"
    /\ isLoading = FALSE
    /\ pending = <<>>
    /\ storage \in FirstStorage
    /\ quotaFull = FALSE
    /\ now = 3
    /\ stPhase = "unmounted"
    /\ stEvents = 0
    /\ stLastOp = [op |-> "none", arg |-> <<>>, before |-> 0]
    /\ stSetItem = <<>>
    /\ stUnsaved = FALSE

\* an event is counted and recorded
Counted(op, arg) ==
    /\ stEvents < MaxEvents
    /\ stEvents' = stEvents + 1
    /\ stLastOp' = [op |-> op, arg |-> arg, before |-> Len(sessions)]

\* The render after a handler and its effects. The sessions effect runs when
\* setSessions was called (or on mount) and hands the collection to setItem,
\* catching a failure; the current-id effect runs when the id changed (or on
\* mount) and is not null, and its setItem is not guarded: a failure there
\* unmounts the application. With no room left the write of the collection
\* fails and the write of the id may fail. A change of currentSessionId
\* remounts ChatInterface (key={currentSessionId}): isLoading starts again at
\* false and the pending sends belong to an unmounted instance.
Commit(op, arg, newSessions, sessionsSet, newCurrent, mounting, newLoading, newPending) ==
    \E fitsId \in BOOLEAN :
        LET saveSessions == sessionsSet \/ mounting
            saveId == (newCurrent # currentSessionId \/ mounting) /\ newCurrent # NoId
            crashes == saveId /\ ~fitsId
            remount == newCurrent # currentSessionId \/ mounting
        IN  /\ fitsId \/ (saveId /\ quotaFull)
            /\ sessions' = newSessions
            /\ currentSessionId' = newCurrent
            /\ isInitialized' = TRUE
            /\ storage' =
                   [sessions |-> IF saveSessions /\ ~quotaFull
                                 THEN Serialize(newSessions) ELSE storage.sessions,
                    currentId |-> IF saveId /\ fitsId
                                  THEN newCurrent ELSE storage.currentId]
            /\ stSetItem' = IF saveSessions THEN <<Serialize(newSessions)>> ELSE <<>>
            /\ stUnsaved' = IF saveSessions THEN quotaFull ELSE stUnsaved
            /\ Counted(op, arg)
            /\ stPhase' = IF crashes THEN "crashed" ELSE "running"
            /\ isLoading' = IF crashes \/ remount THEN FALSE ELSE newLoading
            /\ pending' = IF crashes THEN <<>>
                          ELSE IF remount THEN Orphaned(newPending)
                          ELSE newPending

\* the mount of App: the init effect and the save effects that follow it
Initialize ==
    /\ stPhase = "unmounted"
    /\ LET loaded == AfterLoad(storage.sessions, storage.currentId, now)
       IN  Commit("Initialize", storage.currentId, loaded.sessions, TRUE, loaded.current, TRUE, FALSE, <<>>)
    /\ UNCHANGED <<language, quotaFull, now, exVars, sdVars>>

\* createNewSession adding the session at the end of the collection
createNewSessionAppends ==
    /\ stPhase = "running"
    /\ Commit("createNewSession", <<>>, sessions \o <<createSessionObject(language, now)>>, TRUE,
              createSessionObject(language, now).id, FALSE, isLoading, pending)
    /\ UNCHANGED <<language, quotaFull, now, exVars, sdVars>>

createNewSession ==
    /\ stPhase = "running"
    /\ Commit("createNewSession", <<>>, <<createSessionObject(language, now)>> \o sessions, TRUE,
              createSessionObject(language, now).id, FALSE, isLoading, pending)
    /\ UNCHANGED <<language, quotaFull, now, exVars, sdVars>>

\* a click on a session listed in the sidebar
selectSession(id) ==
    /\ stPhase = "running"
    /\ \E n \in 1..Len(sessions) : sessions[n].id = id
    /\ Commit("selectSession", id, sessions, FALSE, id, FALSE, isLoading, pending)
    /\ UNCHANGED <<language, quotaFull, now, exVars, sdVars>>

\* a click on the delete button of a session listed in the sidebar
deleteSession(id) ==
    /\ stPhase = "running"
    /\ \E n \in 1..Len(sessions) : sessions[n].id = id
    /\ LET after == AfterDelete(sessions, id, currentSessionId,
                                createSessionObject(language, now))
       IN  Commit("deleteSession", id, after.sessions, TRUE, after.current, FALSE, isLoading, pending)
    /\ UNCHANGED <<language, quotaFull, now, exVars, sdVars>>

\* handleSend up to its await: the user message is appended to the log shown
\* and the send starts
handleSend(text) ==
    /\ stPhase = "running"
    /\ Trim(text) # <<>>
    /\ ~isLoading
    /\ LET updatedMessages ==
               getCurrentMessages(sessions, currentSessionId)
                   \o <<[id |-> NatToChars(now), role |-> "user", content |-> text,
                         timestamp |-> [type |-> "Date", ms |-> now],
                         isLiked |-> FALSE, isDisliked |-> FALSE]>>
       IN  Commit("handleSend", text, IF currentSessionId = NoId THEN sessions
                  ELSE MapCurrent(sessions, currentSessionId, updatedMessages, now),
                  currentSessionId # NoId, currentSessionId, FALSE, TRUE,
                  Append(pending, [session |-> currentSessionId,
                                   log |-> updatedMessages,
                                   mounted |-> TRUE]))
    /\ UNCHANGED <<language, quotaFull, now, exVars, sdVars>>

\* sendMessageToOrion resolves for the k-th pending send: the handler's
\* closure appends the assistant message to the log it sent and writes it to
\* the session that was current when it started
ReplyArrives(k, responseText) ==
    /\ stPhase = "running"
    /\ k \in 1..Len(pending)
    /\ LET newLog ==
               pending[k].log
                   \o <<[id |-> NatToChars(now + 1), role |-> "assistant",
                         content |-> responseText,
                         timestamp |-> [type |-> "Date", ms |-> now],
                         isLiked |-> FALSE, isDisliked |-> FALSE]>>
       IN  Commit("ReplyArrives", pending[k].session, IF pending[k].session = NoId THEN sessions
                  ELSE MapCurrent(sessions, pending[k].session, newLog, now),
                  pending[k].session # NoId, currentSessionId, FALSE,
                  IF pending[k].mounted THEN FALSE ELSE isLoading,
                  RemoveAt(pending, k))
    /\ UNCHANGED <<language, quotaFull, now, exVars, sdVars>>

\* sendMessageToOrion rejects for the k-th pending send: an error is shown
ReplyFails(k) ==
    /\ stPhase = "running"
    /\ k \in 1..Len(pending)
    /\ Commit("ReplyFails", pending[k].session, sessions, FALSE, currentSessionId, FALSE,
              IF pending[k].mounted THEN FALSE ELSE isLoading,
              RemoveAt(pending, k))
    /\ UNCHANGED <<language, quotaFull, now, exVars, sdVars>>

\* a click on like or dislike, which the assistant's messages of the log
\* shown carry
handleToggleFeedback(id, type) ==
    /\ stPhase = "running"
    /\ \E n \in 1..Len(getCurrentMessages(sessions, currentSessionId)) :
           /\ getCurrentMessages(sessions, currentSessionId)[n].id = id
           /\ getCurrentMessages(sessions, currentSessionId)[n].role = "assistant"
    /\ Commit("handleToggleFeedback", id, IF currentSessionId = NoId THEN sessions
              ELSE MapCurrent(sessions, currentSessionId,
                              ToggledMessages(getCurrentMessages(sessions, currentSessionId),
                                              id, type),
                              now),
              currentSessionId # NoId, currentSessionId, FALSE, isLoading, pending)
    /\ UNCHANGED <<language, quotaFull, now, exVars, sdVars>>

toggleLanguage ==
    /\ stPhase = "running"
    /\ language' = IF language = "zh" THEN "en" ELSE "zh"
    /\ Counted("toggleLanguage", <<>>)
    /\ stSetItem' = <<>>
    /\ UNCHANGED stUnsaved
    /\ UNCHANGED <<sessions, currentSessionId, isInitialized, isLoading, pending,
                   storage, quotaFull, now, stPhase, exVars, sdVars>>

\* a millisecond passes
Tick ==
    /\ stPhase \in {"unmounted", "running"}
    /\ now' = now + 1
    /\ Counted("Tick", <<>>)
    /\ stSetItem' = <<>>
    /\ UNCHANGED stUnsaved
    /\ UNCHANGED <<sessions, currentSessionId, isInitialized, language, isLoading,
                   pending, storage, quotaFull, stPhase, exVars, sdVars>>

\* the page is closed and opened again: only localStorage survives
Reload ==
    /\ stPhase \in {"running", "crashed"}
    /\ sessions' = <<>>
    /\ currentSessionId' = NoId
    /\ isInitialized' = FALSE
    /\ language' = "zh"
    /\ isLoading' = FALSE
    /\ pending' = <<>>
    /\ stPhase' = "unmounted"
    /\ Counted("Reload", <<>>)
    /\ stSetItem' = <<>>
    /\ UNCHANGED stUnsaved
    /\ UNCHANGED <<storage, quotaFull, now, exVars, sdVars>>

\* localStorage runs out of room, or room is made, by something else
QuotaChanges ==
    /\ stPhase \in {"unmounted", "running"}
    /\ quotaFull' = ~quotaFull
    /\ Counted("QuotaChanges", <<>>)
    /\ stSetItem' = <<>>
    /\ UNCHANGED stUnsaved
    /\ UNCHANGED <<sessions, currentSessionId, isInitialized, language, isLoading,
                   pending, storage, now, stPhase, exVars, sdVars>>

AllIds == {sessions[n].id : n \in 1..Len(sessions)}

AllMessageIds ==
    {getCurrentMessages(sessions, currentSessionId)[n].id :
        n \in 1..Len(getCurrentMessages(sessions, currentSessionId))}

Next ==
    \/ Initialize
    \/ createNewSession
    \/ \E id \in AllIds : selectSession(id)
    \/ \E id \in AllIds : deleteSession(id)
    \/ \E text \in UserTexts : handleSend(text)
    \/ \E k \in 1..Len(pending), responseText \in ReplyTexts : ReplyArrives(k, responseText)
    \/ \E k \in 1..Len(pending) : ReplyFails(k)
    \/ \E id \in AllMessageIds, type \in {"like", "dislike"} : handleToggleFeedback(id, type)
    \/ toggleLanguage
    \/ Tick
    \/ QuotaChanges
    \/ Reload

Spec == StoreInit /\ [][Next]_vars

---------------------------------------------------------------------------
(* Properties of the session store *)

\* a session as createSessionObject makes it at the present clock reading
IsFresh(session) ==
    /\ session.messages = <<>>
    /\ session.title \in {TitleZh, TitleEn}
    /\ session.id = NatToChars(now)
    /\ session.updatedAt = now

\* C8: when the collection holds exactly one session and deleteSession is
\* called with its id, the collection afterwards holds exactly one session,
\* freshly created with an empty log and a placeholder title, and that
\* session is current.
C8_DeleteOnlySession ==
    [][(Len(sessions) = 1 /\ deleteSession(sessions[1].id))
          => /\ Len(sessions') = 1
             /\ IsFresh(sessions'[1])
             /\ currentSessionId' = sessions'[1].id]_vars

\* the only session has been deleted with English selected: the one session
\* there is now has another id, is empty, has the English placeholder and is
\* current
C8_Witness ==
    /\ stLastOp.op = "deleteSession"
    /\ stLastOp.before = 1
    /\ stPhase = "running"
    /\ Len(sessions) = 1
    /\ sessions[1].title = TitleEn
    /\ sessions[1].messages = <<>>
    /\ currentSessionId = sessions[1].id
    /\ stLastOp.arg # sessions[1].id

\* C9: once the store is initialized the collection is never empty, and no
\* value handed to setItem for orion_sessions is an empty collection.
C9_CollectionNeverEmpty ==
    /\ isInitialized => Len(sessions) > 0
    /\ \A n \in 1..Len(stSetItem) :
           stSetItem[n].kind = "array" /\ Len(stSetItem[n].v) > 0

\* the last session has been deleted and the save effect has written the
\* collection holding the new session only
C9_Witness ==
    /\ stLastOp.op = "deleteSession"
    /\ stLastOp.before = 1
    /\ Len(stSetItem) = 1
    /\ Len(stSetItem[1].v) = 1
    /\ stSetItem[1].v[1].messages = <<>>
    /\ storage.sessions = stSetItem[1]

\* C10: once the store is initialized currentSessionId is not null and is
\* the id of a session of the collection; and when the store is loaded with
\* a remembered id that no loaded session has, the first loaded session
\* becomes current.
C10_CurrentIsListed ==
    /\ [](isInitialized =>
              /\ currentSessionId # NoId
              /\ \E n \in 1..Len(sessions) : sessions[n].id = currentSessionId)
    /\ [][(/\ Initialize
           /\ storage.sessions.kind = "array"
           /\ Len(storage.sessions.v) > 0
           /\ \A n \in 1..Len(storage.sessions.v) :
                  storage.sessions.v[n].id # storage.currentId)
             => /\ sessions' = storage.sessions.v
                /\ currentSessionId' = storage.sessions.v[1].id]_vars

\* the store has been loaded with a remembered id that is not among the
\* loaded sessions, and the first of them is current
C10_Witness ==
    /\ stLastOp.op = "Initialize"
    /\ stLastOp.arg # NoId
    /\ stPhase = "running"
    /\ Len(sessions) > 0
    /\ \A n \in 1..Len(sessions) : sessions[n].id # stLastOp.arg
    /\ sessions[1].updatedAt < now
    /\ currentSessionId = sessions[1].id

\* updateCurrentMessages is called, with a log that is not empty, by a handler
\* whose currentSessionId is id: handleSend, the continuation of handleSend
\* when the reply has arrived, or handleToggleFeedback
AppendsTo(id) ==
    \/ /\ currentSessionId = id
       /\ \E text \in UserTexts : handleSend(text)
    \/ \E k \in 1..Len(pending), responseText \in ReplyTexts :
           /\ pending[k].session = id
           /\ ReplyArrives(k, responseText)
    \/ /\ currentSessionId = id
       /\ \E mid \in AllMessageIds, type \in {"like", "dislike"} :
              handleToggleFeedback(mid, type)

IsPlaceholder(title) == title = TitleZh \/ title = TitleEn

\* C11: when updateCurrentMessages is applied with a log that is not empty to
\* a session whose stored title is a placeholder, the stored title becomes
\* the content of the first message of that log when it has at most 20
\* characters, and otherwise its first 20 characters followed by '...'.
C11_PlaceholderTitleDerived ==
    [][\A n \in 1..Len(sessions) :
           (AppendsTo(sessions[n].id) /\ IsPlaceholder(sessions[n].title))
               => /\ Len(sessions') = Len(sessions)
                  /\ Len(sessions'[n].messages) > 0
                  /\ LET first == sessions'[n].messages[1].content
                     IN  sessions'[n].title =
                             IF Len(first) <= 20 THEN first
                             ELSE SubSeq(first, 1, 20) \o <<".", ".", ".">>]_vars

\* a text of 21 characters has been sent in a session that had a placeholder
\* title: the title is its first 20 characters and three dots
C11_Witness ==
    /\ stLastOp.op = "handleSend"
    /\ stLastOp.arg = LongText
    /\ \E n \in 1..Len(sessions) :
           /\ sessions[n].id = currentSessionId
           /\ Len(sessions[n].messages) = 1
           /\ sessions[n].messages[1].content = LongText
           /\ Len(sessions[n].title) = 23
           /\ SubSeq(sessions[n].title, 1, 20) = SubSeq(LongText, 1, 20)
           /\ SubSeq(sessions[n].title, 21, 23) = <<".", ".", ".">>


SameMessage(a, b) ==
    /\ a.id = b.id
    /\ a.role = b.role
    /\ a.content = b.content
    /\ a.isLiked = b.isLiked
    /\ a.isDisliked = b.isDisliked
    /\ a.timestamp.ms = b.timestamp.ms

\* the same sessions in the same order with the same titles and logs
EquivalentCollections(a, b) ==
    /\ Len(a) = Len(b)
    /\ \A n \in 1..Len(a) :
           /\ a[n].id = b[n].id
           /\ a[n].title = b[n].title
           /\ a[n].updatedAt = b[n].updatedAt
           /\ Len(a[n].messages) = Len(b[n].messages)
           /\ \A k \in 1..Len(a[n].messages) :
                  SameMessage(a[n].messages[k], b[n].messages[k])

\* what the init effect would set if the page were loaded again now equals
\* what is in memory
ReloadReproduces ==
    LET loaded == AfterLoad(storage.sessions, storage.currentId, now)
    IN  /\ EquivalentCollections(loaded.sessions, sessions)
        /\ loaded.current = currentSessionId

\* C13 as stated: after any sequence of store operations, loading the store
\* again from localStorage reproduces a collection equivalent to the one in
\* memory and the same current session id.
C13_ReloadAlwaysReproduces ==
    stPhase = "running" => ReloadReproduces

\* C13, amended: when the last write of the collection to localStorage did
\* not fail, loading the store again reproduces a collection equivalent to
\* the one in memory (same sessions, order, titles and logs, a message's
\* time read back as the same instant) and the same current session id.
C13_ReloadReproducesWhatWasSaved ==
    (stPhase = "running" /\ ~stUnsaved) => ReloadReproduces

\* the page has been loaded again after a message was sent in this visit:
\* the message is back with its time as a string, the reply that was liked is
\* back with its mark, and the session that was current, not the first one,
\* is current again
C13_Witness ==
    /\ stLastOp.op = "Initialize"
    /\ stPhase = "running"
    /\ ~stUnsaved
    /\ Len(sessions) = 2
    /\ currentSessionId = sessions[2].id
    /\ Len(sessions[2].messages) = 1
    /\ sessions[2].messages[1].timestamp = [type |-> "string", ms |-> 3]
    /\ Len(sessions[1].messages) = 2
    /\ sessions[1].messages[2].isLiked

\* C14: at most one send is in flight for a session at any time: no two of
\* the sends that have not settled were started for the same session.
C14_SingleFlightPerSession ==
    \A i, j \in 1..Len(pending) :
        pending[i].session = pending[j].session => i = j


\* C15: a failing write to localStorage, of the collection or of the current
\* id, is caught: it does not take the application down, and the collection
\* in memory is the new one that the failed write was handed.
C15_FailedWriteIsCaught ==
    /\ stPhase # "crashed"
    /\ (stPhase = "running" /\ Len(stSetItem) = 1 /\ quotaFull)
           => stSetItem[1] = Serialize(sessions)


\* C21: no two sessions of the collection have the same id.
C21_SessionIdsDistinct ==
    \A i, j \in 1..Len(sessions) : sessions[i].id = sessions[j].id => i = j


\* the clock reading an id was made from
IdValue(id) == CHOOSE v \in 0..(now + 1) : NatToChars(v) = id

\* C22: in every session's log the message ids are pairwise distinct and
\* strictly increasing in the order the messages were created.
C22_MessageIdsIncrease ==
    \A n \in 1..Len(sessions) :
        \A i, j \in 1..Len(sessions[n].messages) :
            i < j => IdValue(sessions[n].messages[i].id)
                         < IdValue(sessions[n].messages[j].id)


\* the messages of log a are, by id and in order, the first messages of log b
IsPrefixById(a, b) ==
    /\ Len(a) <= Len(b)
    /\ \A i \in 1..Len(a) : a[i].id = b[i].id

\* C24: a session's log is append-only: in every step that neither creates
\* nor deletes a session nor loads the page, each session's log afterwards
\* has the messages of its log before, compared by id, as a prefix.
C24_LogsAppendOnly ==
    [][(/\ stPhase = "running"
        /\ stLastOp'.op \in {"handleSend", "ReplyArrives", "ReplyFails",
                             "handleToggleFeedback", "selectSession"})
          => /\ Len(sessions') = Len(sessions)
             /\ \A n \in 1..Len(sessions) :
                    /\ sessions'[n].id = sessions[n].id
                    /\ IsPrefixById(sessions[n].messages, sessions'[n].messages)]_vars


\* C25: deleteSession(id), called while more than one session exists, removes
\* the session with that id and no other; when the deleted session was
\* current the first remaining session becomes current, and otherwise the
\* current id stays.
C25_DeleteRemovesOneSession ==
    [][\A id \in AllIds :
           (Len(sessions) > 1 /\ deleteSession(id))
               => /\ \E k \in 1..Len(sessions) :
                         /\ sessions[k].id = id
                         /\ sessions' = RemoveAt(sessions, k)
                  /\ currentSessionId = id => currentSessionId' = sessions'[1].id
                  /\ currentSessionId # id => currentSessionId' = currentSessionId]_vars


\* C26: createNewSession puts exactly one session, with an empty log and a
\* placeholder title, in front of the sessions there were, which stay as they
\* are and in their order, and makes it current; and the collection is at all
\* times ordered from the newest-created session to the oldest.
C26_CreatePrependsNewest ==
    /\ [][createNewSession
             => /\ Len(sessions') = Len(sessions) + 1
                /\ SubSeq(sessions', 2, Len(sessions')) = sessions
                /\ sessions'[1].messages = <<>>
                /\ IsPlaceholder(sessions'[1].title)
                /\ currentSessionId' = sessions'[1].id]_vars
    /\ [](\A i, j \in 1..Len(sessions) :
              i < j => IdValue(sessions[i].id) >= IdValue(sessions[j].id))

\* a session has been created a clock reading after a session that holds
\* messages: it is first, empty, has a placeholder title and is current
C26_Witness ==
    /\ stLastOp.op = "createNewSession"
    /\ stPhase = "running"
    /\ Len(sessions) >= 2
    /\ sessions[1].messages = <<>>
    /\ IsPlaceholder(sessions[1].title)
    /\ currentSessionId = sessions[1].id
    /\ Len(sessions[2].messages) > 0
    /\ IdValue(sessions[1].id) > IdValue(sessions[2].id)


\* the message at position k of session s differs from what it becomes in
\* nothing but its feedback flags
SameButFlags(a, b) ==
    /\ a.id = b.id
    /\ a.role = b.role
    /\ a.content = b.content
    /\ a.timestamp = b.timestamp

\* C27: no message ever has isLiked and isDisliked both set; and a toggle
\* changes the flags of the one message it was made on and nothing else of
\* any log.
C27_ToggleChangesOneMessage ==
    /\ [](\A n \in 1..Len(sessions) :
              \A i \in 1..Len(sessions[n].messages) :
                  ~(sessions[n].messages[i].isLiked /\ sessions[n].messages[i].isDisliked))
    /\ [][\A id \in AllMessageIds, type \in {"like", "dislike"} :
              handleToggleFeedback(id, type)
                  => /\ Len(sessions') = Len(sessions)
                     /\ \A n \in 1..Len(sessions) :
                            Len(sessions'[n].messages) = Len(sessions[n].messages)
                     /\ \E s \in 1..Len(sessions) :
                            \E k \in 1..Len(sessions[s].messages) :
                                /\ sessions[s].messages[k].id = id
                                /\ SameButFlags(sessions[s].messages[k],
                                                sessions'[s].messages[k])
                                /\ \A n \in 1..Len(sessions) :
                                       \A i \in 1..Len(sessions[n].messages) :
                                           <<n, i>> # <<s, k>>
                                               => sessions'[n].messages[i]
                                                      = sessions[n].messages[i]]_vars

\* C28: the reply to a send started in session S is written to S only: no
\* other session's log changes when it arrives, and when S is no longer in
\* the collection it changes no session at all.
C28_ReplyGoesToItsSession ==
    [][\A k \in 1..Len(pending), responseText \in ReplyTexts :
           ReplyArrives(k, responseText)
               => /\ Len(sessions') = Len(sessions)
                  /\ \A n, m \in 1..Len(sessions) :
                         (/\ sessions'[n].messages # sessions[n].messages
                          /\ sessions'[m].messages # sessions[m].messages) => n = m
                  /\ \A n \in 1..Len(sessions) :
                         sessions'[n].messages # sessions[n].messages
                             => sessions[n].id = pending[k].session
                  /\ pending[k].session \notin AllIds => sessions' = sessions]_vars

\* C29: feedback given, while a send is pending, on a message that was in
\* the log when the send started is still there once the reply has been
\* appended: the reply leaves the flags of those messages as they were.
C29_FeedbackSurvivesReply ==
    [][\A k \in 1..Len(pending), responseText \in ReplyTexts :
           ReplyArrives(k, responseText)
               => \A n \in 1..Len(sessions) :
                      sessions[n].id = pending[k].session
                          => \A i \in 1..Len(pending[k].log) :
                                 (/\ i <= Len(sessions[n].messages)
                                  /\ sessions[n].messages[i].id = pending[k].log[i].id)
                                     => /\ sessions'[n].messages[i].isLiked
                                            = sessions[n].messages[i].isLiked
                                        /\ sessions'[n].messages[i].isDisliked
                                            = sessions[n].messages[i].isDisliked]_vars

===========================================================================
